---------------------------- MODULE Spec2Model ----------------------------
(***************************************************************************)
(* Model of the Steam CSV importer (src/src/index.ts): the row transformer *)
(* (cleanColumnName, cleanRowData), the chunking 'data'/'end'/'error'      *)
(* handlers of importCSV, insertChunk, createIndexes, getStats, close and  *)
(* main, running against a sqlite3 handle in serialized mode.              *)
(*                                                                         *)
(* Text is a sequence of one-character strings.  A JavaScript value is a   *)
(* record [t, n, s]: tag, number, text.  Prices are held in hundredths.    *)
(***************************************************************************)
EXTENDS Integers, Sequences, FiniteSets, TLC

(* ------------------------------ bounds --------------------------------- *)
\* Number of records the source delivers at most in one run.
MaxRecords == 2
\* The configured chunk sizes explored are 1..MaxChunk.
MaxChunk == 2

(* ------------------------- JavaScript values --------------------------- *)
NullV == [t |-> "null", n |-> 0, s |-> <<>>]
UndefV == [t |-> "undefined", n |-> 0, s |-> <<>>]
NaNV == [t |-> "NaN", n |-> 0, s |-> <<>>]
NumV(i) == [t |-> "number", n |-> i, s |-> <<>>]
StrV(x) == [t |-> "string", n |-> 0, s |-> x]

\* JavaScript truthiness of a value held in a raw record after line 147-149.
Truthy(v) ==
  CASE v.t = "null" -> FALSE
    [] v.t = "undefined" -> FALSE
    [] v.t = "NaN" -> FALSE
    [] v.t = "number" -> v.n # 0
    [] OTHER -> v.s # <<>>

(* ------------------------------ characters ----------------------------- *)
Upper ==
  <<"A", "B", "C", "D", "E", "F", "G", "H", "I", "J", "K", "L", "M", "N", "O", "P", "Q", "R", "S", "T", "U", "V", "W", "X", "Y", "Z">>
Lower ==
  <<"a", "b", "c", "d", "e", "f", "g", "h", "i", "j", "k", "l", "m", "n", "o", "p", "q", "r", "s", "t", "u", "v", "w", "x", "y", "z">>
Digits == <<"0", "1", "2", "3", "4", "5", "6", "7", "8", "9">>
InSeq(c, q) == \E i \in 1..Len(q) : q[i] = c
IndexOf(c, q) == CHOOSE i \in 1..Len(q) : q[i] = c
IsSpace(c) == c \in {" ", "\t"}
IsDigit(c) == InSeq(c, Digits)
DigitVal(c) == IndexOf(c, Digits) - 1
\* \w of a JavaScript regular expression: [A-Za-z0-9_]
IsWord(c) ==
  \/ InSeq(c, Upper)
  \/ InSeq(c, Lower)
  \/ IsDigit(c)
  \/ c = "_"
ToLowerChar(c) == IF InSeq(c, Upper) THEN Lower[IndexOf(c, Upper)] ELSE c

(* --------------------------- cleanColumnName --------------------------- *)
toLowerCase(x) == [i \in 1..Len(x) |-> ToLowerChar(x[i])]

RECURSIVE ReplaceSpaceRuns(_)
\* .replace(/\s+/g, '_'): every maximal run of whitespace becomes one '_'
ReplaceSpaceRuns(x) ==
  IF x = <<>> THEN <<>>
  ELSE IF IsSpace(Head(x))
       THEN IF Len(x) > 1 /\ IsSpace(x[2])
            THEN ReplaceSpaceRuns(Tail(x))
            ELSE <<"_">> \o ReplaceSpaceRuns(Tail(x))
       ELSE <<Head(x)>> \o ReplaceSpaceRuns(Tail(x))

\* .replace(/-/g, '_')
ReplaceHyphens(x) == [i \in 1..Len(x) |-> IF x[i] = "-" THEN "_" ELSE x[i]]

RECURSIVE StripFirstNonWord(_)
\* .replace(/[^\w]/, ''), without the g flag: only the first match goes.
StripFirstNonWord(x) ==
  IF x = <<>> THEN <<>>
  ELSE IF IsWord(Head(x))
       THEN <<Head(x)>> \o StripFirstNonWord(Tail(x))
       ELSE Tail(x)

RECURSIVE StripNonWord(_)
\* .replace(/[^\w]/g, '')
StripNonWord(x) ==
  IF x = <<>> THEN <<>>
  ELSE IF IsWord(Head(x))
       THEN <<Head(x)>> \o StripNonWord(Tail(x))
       ELSE StripNonWord(Tail(x))

cleanColumnName(columnName) ==
  StripNonWord(ReplaceHyphens(ReplaceSpaceRuns(toLowerCase(columnName))))

(* ------------------------- parseInt / parseFloat ----------------------- *)
RECURSIVE SkipSpace(_)
SkipSpace(x) ==
  IF x # <<>> /\ IsSpace(Head(x)) THEN SkipSpace(Tail(x)) ELSE x

RECURSIVE DigitPrefix(_)
\* The longest prefix of decimal digits.
DigitPrefix(x) ==
  IF x # <<>> /\ IsDigit(Head(x))
  THEN <<Head(x)>> \o DigitPrefix(Tail(x))
  ELSE <<>>

RECURSIVE DigitsValue(_)
DigitsValue(d) ==
  IF d = <<>> THEN 0
  ELSE 10 * DigitsValue(SubSeq(d, 1, Len(d) - 1)) + DigitVal(d[Len(d)])

\* Text after an optional sign, and the sign.
Unsigned(x) == IF x # <<>> /\ Head(x) \in {"-", "+"} THEN Tail(x) ELSE x
SignOf(x) == IF x # <<>> /\ Head(x) = "-" THEN -1 ELSE 1

\* parseInt(text): leading whitespace and a sign are skipped, the decimal
\* digits that follow are the value, and no digit at all gives NaN.
parseInt(x) ==
  LET body == Unsigned(SkipSpace(x))
      d == DigitPrefix(body)
  IN IF d = <<>> THEN NaNV ELSE NumV(SignOf(SkipSpace(x)) * DigitsValue(d))

\* parseFloat(text), in hundredths: integer digits, then an optional '.'
\* and fraction digits of which the model's inputs have at most two.
parseFloat(x) ==
  LET body == Unsigned(SkipSpace(x))
      d == DigitPrefix(body)
      rest == SubSeq(body, Len(d) + 1, Len(body))
      f == IF rest # <<>> /\ Head(rest) = "." THEN DigitPrefix(Tail(rest)) ELSE <<>>
      f2 == IF Len(f) = 0 THEN <<"0", "0">>
            ELSE IF Len(f) = 1 THEN f \o <<"0">>
            ELSE SubSeq(f, 1, 2)
  IN IF d = <<>> /\ f = <<>> THEN NaNV
     ELSE NumV(SignOf(SkipSpace(x)) * (100 * DigitsValue(d) + DigitsValue(f2)))

(* ------------------------------ cleanRowData --------------------------- *)
\* The cleaned column keys that the switch of cleanRowData names.
K_app_id == <<"a", "p", "p", "_", "i", "d">>
K_appid == <<"a", "p", "p", "i", "d">>
K_peak_ccu == <<"p", "e", "a", "k", "_", "c", "c", "u">>
K_required_age == <<"r", "e", "q", "u", "i", "r", "e", "d", "_", "a", "g", "e">>
K_discount_dlc_count == <<"d", "i", "s", "c", "o", "u", "n", "t", "_", "d", "l", "c", "_", "c", "o", "u", "n", "t">>
K_positive == <<"p", "o", "s", "i", "t", "i", "v", "e">>
K_negative == <<"n", "e", "g", "a", "t", "i", "v", "e">>
K_score_rank == <<"s", "c", "o", "r", "e", "_", "r", "a", "n", "k">>
K_recommendations == <<"r", "e", "c", "o", "m", "m", "e", "n", "d", "a", "t", "i", "o", "n", "s">>
K_average_playtime_two_weeks == <<"a", "v", "e", "r", "a", "g", "e", "_", "p", "l", "a", "y", "t", "i", "m", "e", "_", "t", "w", "o", "_", "w", "e", "e", "k", "s">>
K_median_playtime_forever == <<"m", "e", "d", "i", "a", "n", "_", "p", "l", "a", "y", "t", "i", "m", "e", "_", "f", "o", "r", "e", "v", "e", "r">>
K_median_playtime_two_weeks == <<"m", "e", "d", "i", "a", "n", "_", "p", "l", "a", "y", "t", "i", "m", "e", "_", "t", "w", "o", "_", "w", "e", "e", "k", "s">>
K_price == <<"p", "r", "i", "c", "e">>
K_achievements == <<"a", "c", "h", "i", "e", "v", "e", "m", "e", "n", "t", "s">>
K_windows == <<"w", "i", "n", "d", "o", "w", "s">>
K_mac == <<"m", "a", "c">>
K_linux == <<"l", "i", "n", "u", "x">>
K_name == <<"n", "a", "m", "e">>

\* The keys of the case group at lines 157-166.
CountKeys ==
  {K_peak_ccu, K_required_age, K_discount_dlc_count, K_positive, K_negative,
   K_score_rank, K_recommendations, K_average_playtime_two_weeks,
   K_median_playtime_forever, K_median_playtime_two_weeks}
PlatformKeys == {K_windows, K_mac, K_linux}

T_True == <<"T", "r", "u", "e">>
T_true == <<"t", "r", "u", "e">>
T_False == <<"F", "a", "l", "s", "e">>
T_false == <<"f", "a", "l", "s", "e">>

\* Lines 146-149: '' and undefined become null.
EmptyToNull(value) ==
  IF value = StrV(<<>>) \/ value = UndefV THEN NullV ELSE value

\* The key that one entry of the raw record assigns in cleanedRow.
TargetKey(cleanKey) == IF cleanKey = K_appid THEN K_app_id ELSE cleanKey

\* The switch of lines 152-189 for one entry: the value stored.
Coerce(cleanKey, raw) ==
  LET value == EmptyToNull(raw)
  IN CASE cleanKey \in {K_app_id, K_appid} ->
            IF Truthy(value) THEN parseInt(value.s) ELSE NullV
       [] cleanKey \in CountKeys ->
            IF Truthy(value) THEN parseInt(value.s) ELSE NumV(0)
       [] cleanKey = K_price ->
            IF Truthy(value) THEN parseFloat(value.s) ELSE NumV(0)
       [] cleanKey = K_achievements ->
            IF Truthy(value) /\ value # StrV(<<"0">>)
            THEN parseInt(value.s) ELSE NullV
       [] cleanKey \in PlatformKeys ->
            IF value \in {StrV(T_True), StrV(T_true)} THEN StrV(T_True)
            ELSE IF value \in {StrV(T_False), StrV(T_false)} THEN StrV(T_False)
            ELSE value
       [] OTHER -> value

RECURSIVE CleanEntries(_, _)
\* Object.keys(row).forEach: the entries in order, a later entry with the
\* same target key overwriting an earlier one.
CleanEntries(row, cleanedRow) ==
  IF row = <<>> THEN cleanedRow
  ELSE LET cleanKey == cleanColumnName(Head(row)[1])
           k == TargetKey(cleanKey)
           v == Coerce(cleanKey, Head(row)[2])
       IN CleanEntries(Tail(row),
            [x \in (DOMAIN cleanedRow) \cup {k} |->
               IF x = k THEN v ELSE cleanedRow[x]])

\* A raw record is a sequence of <<column name, text>> pairs; the typed row
\* is a function from cleaned keys to values.
cleanRowData(row) == CleanEntries(row, <<>>)

\* row.<key> of a typed row: undefined when the key was never assigned.
Field(row, k) == IF k \in DOMAIN row THEN row[k] ELSE UndefV


(* --------------------------- the sqlite3 handle ------------------------ *)
\* The handle is in serialized mode (constructor, line 66): a statement
\* scheduled on the handle (run, get, prepare, close) waits in the handle's
\* queue until nothing is pending.  A run of the prepared insertStatement
\* waits only in the statement's own queue, until the statement is prepared
\* and not executing.
NoOp == [k |-> "NONE", a |-> 0]
NoRun == [k |-> "NONE", n |-> 0, b |-> 0, v |-> <<>>]
DbOp(kind, arg) == [k |-> kind, a |-> arg]
RunOp(num, batch, values) == [k |-> "RUN", n |-> num, b |-> batch, v |-> values]
FinalizeOp == [k |-> "FINALIZE", n |-> 0, b |-> 0, v |-> <<>>]

IdleDb == [queue |-> <<>>, cur |-> NoOp, sq |-> <<>>, scur |-> NoRun, st |-> "none"]

Pending(D) ==
  (IF D.cur # NoOp THEN 1 ELSE 0) + (IF D.scur # NoRun THEN 1 ELSE 0)

\* this.db.run / get / prepare / close: start at once when nothing is
\* pending, else queue.
DbSchedule(D, op) ==
  IF Pending(D) > 0
  THEN [D EXCEPT !.queue = Append(@, op)]
  ELSE [D EXCEPT !.cur = op]

\* The handle starts the next queued statement when nothing is pending.
DbProcess(D) ==
  IF Pending(D) = 0 /\ D.queue # <<>>
  THEN [D EXCEPT !.cur = Head(D.queue), !.queue = Tail(D.queue)]
  ELSE D

\* The insert statement starts its next queued call.
StmtProcess(D) ==
  IF D.st = "prepared" /\ D.scur = NoRun /\ D.sq # <<>>
  THEN IF Head(D.sq).k = "FINALIZE"
       THEN [D EXCEPT !.st = "finalized", !.sq = <<>>]
       ELSE [D EXCEPT !.scur = Head(D.sq), !.sq = Tail(D.sq)]
  ELSE D

\* insertStatement.run / insertStatement.finalize
StmtSchedule(D, op) ==
  IF D.st # "prepared" \/ D.scur # NoRun
  THEN [D EXCEPT !.sq = Append(@, op)]
  ELSE IF op.k = "FINALIZE"
       THEN [D EXCEPT !.st = "finalized"]
       ELSE [D EXCEPT !.scur = op]

\* A statement of the handle has completed and its callback has returned.
DbOpEnd(D) == DbProcess([D EXCEPT !.cur = NoOp])

\* A run of the insert statement has completed: the statement's queue goes
\* first, the handle's queue after it.
StmtOpEnd(D) == DbProcess(StmtProcess([D EXCEPT !.scur = NoRun]))

(* ------------------------------ the table ------------------------------ *)
\* What sqlite3 binds for a JavaScript value: NaN and undefined are NULL.
SqlValue(v) == IF v.t \in {"NaN", "undefined"} THEN NullV ELSE v

SetMax(S) == CHOOSE x \in S : \A y \in S : y <= x
RowIds(store) == {r.app_id : r \in store}

\* INSERT OR IGNORE of one row into the table (lines 72-75, 205): the row
\* is skipped without an error when its name is NULL (name TEXT NOT NULL)
\* or when the table already holds its catalog id (app_id INTEGER PRIMARY
\* KEY).
InsertIgnored(store, values) ==
  LET id == SqlValue(values[1])
      name == SqlValue(values[2])
  IN name = NullV \/ (id # NullV /\ id.n \in RowIds(store))

\* The rowid of an inserted row: its app_id, or for a NULL app_id one more
\* than the largest rowid in use (1 in an empty table).
NewRowId(store, values) ==
  LET id == SqlValue(values[1])
  IN IF id # NullV THEN id.n
     ELSE IF store = {} THEN 1 ELSE SetMax(RowIds(store)) + 1

StoredRow(store, values) ==
  [app_id |-> NewRowId(store, values),
   name |-> SqlValue(values[2]),
   price |-> SqlValue(values[3])]

\* INSERT OR REPLACE in place of INSERT OR IGNORE: a row with a stored
\* catalog id replaces the stored row.
InsertOrReplace(store, values) ==
  LET id == SqlValue(values[1])
  IN IF SqlValue(values[2]) = NullV THEN store
     ELSE IF id # NullV /\ id.n \in RowIds(store)
          THEN {r \in store : r.app_id # id.n}
                 \cup {[app_id |-> id.n, name |-> SqlValue(values[2]),
                        price |-> SqlValue(values[3])]}
          ELSE store \cup {StoredRow(store, values)}

InsertOrIgnore(store, values) ==
  IF InsertIgnored(store, values)
  THEN store
  ELSE store \cup {StoredRow(store, values)}

(* ------------------------------- the input ----------------------------- *)
C_AppID == <<"A", "p", "p", "I", "D">>
C_Name == <<"N", "a", "m", "e">>
C_Price == <<"P", "r", "i", "c", "e">>
Rec(id, name, price) ==
  <<<<C_AppID, StrV(id)>>, <<C_Name, StrV(name)>>, <<C_Price, StrV(price)>>>>

\* The records a source may deliver: two with the same catalog id and
\* different values, one with an empty catalog id, one with an empty name.
RawRecords ==
  {Rec(<<"1">>, <<"A">>, <<"0">>),
   Rec(<<"1">>, <<"B">>, <<"5">>),
   Rec(<<"2">>, <<"B">>, <<"9", ".", "5">>),
   Rec(<<>>, <<"C">>, <<>>),
   Rec(<<"2">>, <<>>, <<"5">>)}

\* The bound values of one typed row, in the order of lines 257-269 (of
\* the 39 columns the model keeps the key, the NOT NULL column and price).
Values(row) == <<Field(row, K_app_id), Field(row, K_name), Field(row, K_price)>>

(* -------------------------------- state -------------------------------- *)
VARIABLES
  pc,             \* where main is: start, createTable, importing, stats1..3, done, crashed
  stream,         \* the csv stream: none, flowing, ended, errored
  chunkSize,      \* config.chunkSize
  readRows,       \* the typed rows produced by the 'data' handler, in order
  currentChunk,   \* importCSV's buffer
  batches,        \* the chunks handed to insertChunk, in order
  processedRows,  \* this.processedRows
  rowWarnings,    \* row numbers of the console.warn lines of insertChunk
  results,        \* what each executed insert did: [n, res, rowid]
  db,             \* the handle's and the insert statement's queues
  table,          \* whether the table exists
  committed,      \* the rows durably in the table
  working,        \* the rows the connection sees (committed and uncommitted)
  inTxn,          \* whether a transaction is open on the connection
  commits,        \* number of COMMIT statements executed
  indexes,        \* number of indexes that exist
  indexCalls,     \* number of calls of createIndexes
  completed,      \* createIndexes' counter
  indexWarnings,  \* number of console.warn lines of createIndexes
  importResult,   \* the promise of importCSV: pending, resolved, rejected
  reported,       \* the total printed by "Import completed!", -1 before
  stats,          \* getStats' stats object (dropped when getStats rejects)
  statsPrinted,   \* whether main printed the statistics
  failureLogged,  \* whether main printed "Import failed"
  csvErrorLogged, \* whether the 'error' handler printed "Error reading CSV"
  closeCalls,     \* number of calls of close
  handle,         \* the store handle: open, closed
  closeError,     \* whether close's callback printed "Error closing database"
  runs,           \* how many times the process has been started
  previous,       \* the previous run: the typed rows it read, whether an insert failed
  columnName,     \* the argument of a call of cleanColumnName
  cleanKeys,      \* what cleanColumnName returned, call after call
  row,            \* the argument of a call of cleanRowData
  typedRow        \* what cleanRowData returned: [done, v]

vars ==
  <<pc, stream, chunkSize, readRows, currentChunk, batches, processedRows,
    rowWarnings, results, db, table, committed, working, inTxn, commits,
    indexes, indexCalls, completed, indexWarnings, importResult, reported,
    stats, statsPrinted, failureLogged, csvErrorLogged, closeCalls, handle,
    closeError, runs, previous, columnName, cleanKeys, row, typedRow>>

sourceVars == <<stream, readRows, currentChunk, batches>>
tableVars == <<table, committed, working, inTxn, commits, indexes>>
rowVars == <<processedRows, rowWarnings, results>>
indexVars == <<indexCalls, completed, indexWarnings>>
mainVars ==
  <<importResult, reported, stats, statsPrinted, failureLogged,
    csvErrorLogged, closeCalls>>
endVars == <<handle, closeError>>
\* The arguments and results of the row transformer called on its own.
unitVars == <<columnName, cleanKeys, row, typedRow>>
\* What no step of a run changes: the configuration, the earlier runs.
fixedVars == <<chunkSize, runs, previous, unitVars>>

NumIndexes == 6
NoStats == [totalGames |-> NullV, avgPrice |-> NullV, minPrice |-> NullV, maxPrice |-> NullV]

\* There was no previous run.
NoPrevious == [rows |-> <<>>, failed |-> FALSE]

\* No call of cleanRowData has returned.
NotCleaned == [done |-> FALSE, v |-> <<>>]

\* The row transformer is not called on its own.
NoUnitCall ==
  /\ columnName = <<>>
  /\ cleanKeys = <<>>
  /\ row = <<>>
  /\ typedRow = NotCleaned

\* The importer as constructed by main (lines 366-379), before main calls
\* importCSV.
Constructed ==
  /\ pc = "start"
  /\ stream = "none"
  /\ chunkSize \in 1..MaxChunk
  /\ readRows = <<>>
  /\ currentChunk = <<>>
  /\ batches = <<>>
  /\ processedRows = 0
  /\ rowWarnings = <<>>
  /\ results = <<>>
  /\ db = IdleDb
  /\ table = FALSE
  /\ committed = {}
  /\ working = {}
  /\ inTxn = FALSE
  /\ commits = 0
  /\ indexes = 0
  /\ indexCalls = 0
  /\ completed = 0
  /\ indexWarnings = 0
  /\ importResult = "pending"
  /\ reported = -1
  /\ stats = NoStats
  /\ statsPrinted = FALSE
  /\ failureLogged = FALSE
  /\ csvErrorLogged = FALSE
  /\ closeCalls = 0
  /\ handle = "open"
  /\ closeError = FALSE

\* The first start of the process, on a database file that does not exist
\* yet.
Init ==
  /\ Constructed
  /\ runs = 1
  /\ previous = NoPrevious
  /\ NoUnitCall

\* An unhandled 'error' event ends the process at once; nothing runs after.
Running == pc # "crashed"

(* ------------------------------ insertChunk ---------------------------- *)
RECURSIVE ScheduleRuns(_, _, _, _, _)
\* chunk.forEach: one insertStatement.run per row, in order.
ScheduleRuns(D, chunk, b, base, i) ==
  IF i > Len(chunk) THEN D
  ELSE ScheduleRuns(StmtSchedule(D, RunOp(base + i, b, Values(chunk[i]))),
                    chunk, b, base, i + 1)

\* insertChunk(chunk, insertStatement) as batch number b, whose rows are the
\* records base+1 .. base+Len(chunk) in read order: BEGIN, the runs, COMMIT.
insertChunk(D, chunk, b, base) ==
  DbSchedule(ScheduleRuns(DbSchedule(D, DbOp("BEGIN", b)), chunk, b, base, 1),
             DbOp("COMMIT", b))

\* The test of line 227 with > for >=.
ChunkFullOffByOne(chunk) == Len(chunk) > chunkSize

\* The 'data' handler's test of line 227.
ChunkFull(chunk) == Len(chunk) >= chunkSize

(* ------------------------------- getStats ------------------------------ *)
\* WHERE price > 0
Priced(store) == {r \in store : r.price.t = "number" /\ r.price.n > 0}
Prices(store) == {r.price.n : r \in Priced(store)}

RECURSIVE SumPrices(_)
SumPrices(S) ==
  IF S = {} THEN 0
  ELSE LET r == CHOOSE x \in S : TRUE IN r.price.n + SumPrices(S \ {r})

SetMin(S) == CHOOSE x \in S : \A y \in S : x <= y

\* The count taken with the price filter of the other two queries.
CountPriced(store) == NumV(Cardinality(Priced(store)))

\* SELECT COUNT(*)
CountQuery(store) == NumV(Cardinality(store))
\* The average taken without the WHERE clause, over every row with a price.
AvgAllRows(store) ==
  LET S == {r \in store : r.price.t = "number"}
  IN IF S = {} THEN NullV ELSE NumV(SumPrices(S) \div Cardinality(S))

\* SELECT AVG(price) ... WHERE price > 0, in hundredths (rounded down); NULL
\* over no row.
AvgQuery(store) ==
  IF Priced(store) = {} THEN NullV
  ELSE NumV(SumPrices(Priced(store)) \div Cardinality(Priced(store)))
MinQuery(store) == IF Priced(store) = {} THEN NullV ELSE NumV(SetMin(Prices(store)))
MaxQuery(store) == IF Priced(store) = {} THEN NullV ELSE NumV(SetMax(Prices(store)))

(* --------------------------------- main -------------------------------- *)
\* close(): this.db.close is scheduled on the handle.
close(D) == DbSchedule(D, DbOp("CLOSE", 0))

\* main's catch and finally blocks after a rejection (lines 389-393).
MainCatch ==
  /\ importResult' = IF importResult = "pending" THEN "rejected" ELSE importResult
  /\ failureLogged' = TRUE
  /\ closeCalls' = closeCalls + 1
  /\ pc' = "done"

\* main calls importCSV, which calls createTable (lines 382, 197, 117).
MainStart ==
  /\ Running /\ pc = "start"
  /\ pc' = "createTable"
  /\ db' = DbSchedule(db, DbOp("CREATE", 0))
  /\ UNCHANGED <<fixedVars, sourceVars, tableVars, rowVars, indexVars, mainVars, endVars>>

\* CREATE TABLE IF NOT EXISTS succeeded: createTable resolves and importCSV
\* prepares the insert statement and opens the stream (lines 121-122,
\* 217-221).
CreateTableOk ==
  /\ Running /\ db.cur.k = "CREATE"
  /\ table' = TRUE
  /\ db' = DbOpEnd(DbSchedule([db EXCEPT !.st = "unprepared"], DbOp("PREPARE", 0)))
  /\ stream' = "flowing"
  /\ pc' = "importing"
  /\ UNCHANGED <<fixedVars, readRows, currentChunk, batches, committed, working,
                 inTxn, commits, indexes, rowVars, indexVars, mainVars, endVars>>

\* CREATE TABLE failed and the callback resolves all the same: importCSV
\* goes on without a table.
CreateTableFailedResolves ==
  /\ Running /\ db.cur.k = "CREATE"
  /\ db' = DbOpEnd(DbSchedule([db EXCEPT !.st = "unprepared"], DbOp("PREPARE", 0)))
  /\ stream' = "flowing"
  /\ pc' = "importing"
  /\ UNCHANGED <<fixedVars, readRows, currentChunk, batches, tableVars, rowVars,
                 indexVars, mainVars, endVars>>

\* CREATE TABLE failed: createTable rejects (line 119), importCSV rejects,
\* main logs and calls close.
CreateTableFailed ==
  /\ Running /\ db.cur.k = "CREATE"
  /\ MainCatch
  /\ db' = DbOpEnd(close(db))
  /\ UNCHANGED <<fixedVars, sourceVars, tableVars, rowVars, indexVars, reported,
                 stats, statsPrinted, csvErrorLogged, endVars>>

\* The insert statement is prepared (line 217): its queued runs start.
PrepareDone ==
  /\ Running /\ db.cur.k = "PREPARE"
  /\ db' = DbProcess(StmtProcess([db EXCEPT !.cur = NoOp, !.st = "prepared"]))
  /\ UNCHANGED <<pc, fixedVars, sourceVars, tableVars, rowVars, indexVars, mainVars, endVars>>

\* The 'data' handler (lines 222-231).  A run started again on the same
\* file reads first what the previous run read.
OnData(rec) ==
  /\ Running /\ stream = "flowing" /\ Len(readRows) < MaxRecords
  /\ Len(readRows) < Len(previous.rows)
       => cleanRowData(rec) = previous.rows[Len(readRows) + 1]
  /\ LET cleanedRow == cleanRowData(rec)
         chunk == Append(currentChunk, cleanedRow)
     IN /\ readRows' = Append(readRows, cleanedRow)
        /\ IF ChunkFull(chunk)
           THEN /\ db' = insertChunk(db, chunk, Len(batches) + 1,
                                     Len(readRows) + 1 - Len(chunk))
                /\ batches' = Append(batches, chunk)
                /\ currentChunk' = <<>>
           ELSE /\ currentChunk' = chunk
                /\ UNCHANGED <<db, batches>>
  /\ UNCHANGED <<pc, stream, fixedVars, tableVars, rowVars, indexVars, mainVars, endVars>>

RECURSIVE ScheduleIndexes(_, _)
\* indexes.forEach: one this.db.run per index (lines 300-301).
ScheduleIndexes(D, i) ==
  IF i > NumIndexes THEN D
  ELSE ScheduleIndexes(DbSchedule(D, DbOp("INDEX", i)), i + 1)

\* createIndexes() called from the 'end' handler.
createIndexes(D) == ScheduleIndexes(D, 1)

\* The 'end' handler with createIndexes called before the remainder is
\* flushed.
OnEndIndexesFirst ==
  /\ Running /\ stream = "flowing" /\ Len(readRows) >= Len(previous.rows)
  /\ LET D1 == createIndexes(db)
         D2 == IF Len(currentChunk) > 0
               THEN insertChunk(D1, currentChunk, Len(batches) + 1,
                                Len(readRows) - Len(currentChunk))
               ELSE D1
     IN db' = StmtSchedule(D2, FinalizeOp)
  /\ batches' = IF Len(currentChunk) > 0 THEN Append(batches, currentChunk) ELSE batches
  /\ stream' = "ended"
  /\ indexCalls' = indexCalls + 1
  /\ completed' = 0
  /\ UNCHANGED <<pc, fixedVars, readRows, currentChunk, tableVars, rowVars,
                 indexWarnings, mainVars, endVars>>

\* The 'end' handler (lines 232-243): flush, finalize, createIndexes.
OnEnd ==
  /\ Running /\ stream = "flowing" /\ Len(readRows) >= Len(previous.rows)
  /\ LET D1 == IF Len(currentChunk) > 0
               THEN insertChunk(db, currentChunk, Len(batches) + 1,
                                Len(readRows) - Len(currentChunk))
               ELSE db
     IN db' = createIndexes(StmtSchedule(D1, FinalizeOp))
  /\ batches' = IF Len(currentChunk) > 0 THEN Append(batches, currentChunk) ELSE batches
  /\ stream' = "ended"
  /\ indexCalls' = indexCalls + 1
  /\ completed' = 0
  /\ UNCHANGED <<pc, fixedVars, readRows, currentChunk, tableVars, rowVars,
                 indexWarnings, mainVars, endVars>>

\* The 'error' handler of the csv parser's stream (lines 244-247): log and
\* reject; main logs and calls close.
OnParseError ==
  /\ Running /\ stream = "flowing" /\ Len(readRows) >= Len(previous.rows)
  /\ stream' = "errored"
  /\ csvErrorLogged' = TRUE
  /\ MainCatch
  /\ db' = close(db)
  /\ UNCHANGED <<fixedVars, readRows, currentChunk, batches, tableVars, rowVars,
                 indexVars, reported, stats, statsPrinted, endVars>>

\* An 'error' event of the file stream of line 220 (missing or unreadable
\* file): the only 'error' listener is on the stream that pipe() returns,
\* so the event is unhandled and ends the process.
OnFileError ==
  /\ Running /\ stream = "flowing"
  /\ stream' = "errored"
  /\ pc' = "crashed"
  /\ UNCHANGED <<fixedVars, readRows, currentChunk, batches, db, tableVars,
                 rowVars, indexVars, mainVars, endVars>>

(* ---------------------- statements executed by sqlite ------------------ *)
\* BEGIN TRANSACTION of a chunk has executed (line 254).
BeginDone ==
  /\ Running /\ db.cur.k = "BEGIN"
  /\ inTxn' = TRUE
  /\ db' = DbOpEnd(db)
  /\ UNCHANGED <<pc, fixedVars, sourceVars, table, committed, working, commits,
                 indexes, rowVars, indexVars, mainVars, endVars>>

\* The callback counting a row only when the table changed.
InsertRowOkCountsChanges ==
  /\ Running /\ db.scur.k = "RUN"
  /\ LET op == db.scur
         ignored == InsertIgnored(working, op.v)
         store == InsertOrIgnore(working, op.v)
     IN /\ working' = store
        /\ committed' = IF inTxn THEN committed ELSE store
        /\ results' = Append(results,
             [n |-> op.n,
              res |-> IF ignored THEN "ignored" ELSE "inserted",
              rowid |-> IF ignored THEN 0 ELSE NewRowId(working, op.v)])
        /\ processedRows' = IF ignored THEN processedRows ELSE processedRows + 1
  /\ db' = StmtOpEnd(db)
  /\ UNCHANGED <<pc, fixedVars, sourceVars, table, inTxn, commits, indexes,
                 rowWarnings, indexVars, mainVars, endVars>>

\* One run of the insert statement has executed without an error; the
\* callback counts the row (line 275).
InsertRowOk ==
  /\ Running /\ db.scur.k = "RUN"
  /\ LET op == db.scur
         ignored == InsertIgnored(working, op.v)
         store == InsertOrIgnore(working, op.v)
     IN /\ working' = store
        /\ committed' = IF inTxn THEN committed ELSE store
        /\ results' = Append(results,
             [n |-> op.n,
              res |-> IF ignored THEN "ignored" ELSE "inserted",
              rowid |-> IF ignored THEN 0 ELSE NewRowId(working, op.v)])
  /\ processedRows' = processedRows + 1
  /\ db' = StmtOpEnd(db)
  /\ UNCHANGED <<pc, fixedVars, sourceVars, table, inTxn, commits, indexes,
                 rowWarnings, indexVars, mainVars, endVars>>

\* A failed run that makes the statement drop the runs still queued.
InsertRowErrorAborts ==
  /\ Running /\ db.scur.k = "RUN"
  /\ results' = Append(results, [n |-> db.scur.n, res |-> "error", rowid |-> 0])
  /\ rowWarnings' = Append(rowWarnings, db.scur.n)
  /\ db' = DbProcess([db EXCEPT !.scur = NoRun,
                                !.sq = SelectSeq(db.sq, LAMBDA o : o.k # "RUN")])
  /\ UNCHANGED <<pc, fixedVars, sourceVars, tableVars, processedRows, indexVars,
                 mainVars, endVars>>

\* One run of the insert statement has failed; the callback logs a warning
\* (line 273).
InsertRowError ==
  /\ Running /\ db.scur.k = "RUN"
  /\ results' = Append(results, [n |-> db.scur.n, res |-> "error", rowid |-> 0])
  /\ rowWarnings' = Append(rowWarnings, db.scur.n)
  /\ db' = StmtOpEnd(db)
  /\ UNCHANGED <<pc, fixedVars, sourceVars, tableVars, processedRows, indexVars,
                 mainVars, endVars>>

\* COMMIT of a chunk has executed (line 280).
CommitDone ==
  /\ Running /\ db.cur.k = "COMMIT"
  /\ committed' = working
  /\ inTxn' = FALSE
  /\ commits' = commits + 1
  /\ db' = DbOpEnd(db)
  /\ UNCHANGED <<pc, fixedVars, sourceVars, table, working, indexes, rowVars,
                 indexVars, mainVars, endVars>>

\* The callback of one CREATE INDEX (lines 302-311), after the warning or
\* the progress line: count, and resolve on the last one.  Resolving prints
\* the total (line 240) and main goes on to getStats (line 386).
IndexCallback ==
  /\ completed' = completed + 1
  /\ IF completed + 1 = NumIndexes
     THEN /\ importResult' = "resolved"
          /\ reported' = processedRows
          /\ pc' = "stats"
          /\ db' = DbOpEnd(DbSchedule(db, DbOp("GET", 1)))
     ELSE /\ db' = DbOpEnd(db)
          /\ UNCHANGED <<importResult, reported, pc>>

IndexOk ==
  /\ Running /\ db.cur.k = "INDEX"
  /\ indexes' = indexes + 1
  /\ IndexCallback
  /\ UNCHANGED <<fixedVars, sourceVars, table, committed, working, inTxn, commits,
                 rowVars, indexCalls, indexWarnings, stats, statsPrinted,
                 failureLogged, csvErrorLogged, closeCalls, endVars>>

\* The callback returning after the warning, before the count.
IndexErrorReturns ==
  /\ Running /\ db.cur.k = "INDEX"
  /\ indexWarnings' = indexWarnings + 1
  /\ db' = DbOpEnd(db)
  /\ UNCHANGED <<pc, fixedVars, sourceVars, tableVars, rowVars, indexCalls, completed,
                 importResult, reported, stats, statsPrinted, failureLogged,
                 csvErrorLogged, closeCalls, endVars>>

IndexError ==
  /\ Running /\ db.cur.k = "INDEX"
  /\ indexWarnings' = indexWarnings + 1
  /\ IndexCallback
  /\ UNCHANGED <<fixedVars, sourceVars, tableVars, rowVars, indexCalls, stats,
                 statsPrinted, failureLogged, csvErrorLogged, closeCalls, endVars>>

\* One query of getStats has answered (lines 323-346): the next query is
\* issued, and after the third getStats resolves, main prints the
\* statistics and calls close.
GetOk ==
  /\ Running /\ db.cur.k = "GET"
  /\ stats' = CASE db.cur.a = 1 -> [stats EXCEPT !.totalGames = CountQuery(working)]
                [] db.cur.a = 2 -> [stats EXCEPT !.avgPrice = AvgQuery(working)]
                [] OTHER -> [stats EXCEPT !.minPrice = MinQuery(working),
                                          !.maxPrice = MaxQuery(working)]
  /\ IF db.cur.a < 3
     THEN /\ db' = DbOpEnd(DbSchedule(db, DbOp("GET", db.cur.a + 1)))
          /\ UNCHANGED <<pc, statsPrinted, closeCalls>>
     ELSE /\ statsPrinted' = TRUE
          /\ closeCalls' = closeCalls + 1
          /\ pc' = "done"
          /\ db' = DbOpEnd(close(db))
  /\ UNCHANGED <<fixedVars, sourceVars, tableVars, rowVars, indexVars, importResult,
                 reported, failureLogged, csvErrorLogged, endVars>>

\* One query of getStats has failed: getStats rejects, main logs and calls
\* close.
GetError ==
  /\ Running /\ db.cur.k = "GET"
  /\ MainCatch
  /\ stats' = NoStats
  /\ db' = DbOpEnd(close(db))
  /\ UNCHANGED <<fixedVars, sourceVars, tableVars, rowVars, indexVars, reported,
                 statsPrinted, csvErrorLogged, endVars>>

\* this.db.close has executed (lines 354-360): sqlite refuses to close a
\* handle that still has a prepared statement that was not finalized.
CloseDone ==
  /\ Running /\ db.cur.k = "CLOSE"
  /\ IF db.st \in {"none", "finalized"}
     THEN handle' = "closed" /\ UNCHANGED closeError
     ELSE closeError' = TRUE /\ UNCHANGED handle
  /\ db' = DbOpEnd(db)
  /\ UNCHANGED <<pc, fixedVars, sourceVars, tableVars, rowVars, indexVars, mainVars>>

\* The process has ended: by the unhandled event, or because main has
\* returned and no statement is queued or executing.
Exited ==
  \/ pc = "crashed"
  \/ pc = "done" /\ Pending(db) = 0 /\ db.queue = <<>> /\ db.sq = <<>>

\* The exit code of the ended process: 1 after an uncaught exception; else
\* 0, since main's promise resolved and nothing sets process.exitCode
\* (lines 389-393, 401).
ExitCode == IF pc = "crashed" THEN 1 ELSE 0

Next ==
  \/ MainStart
  \/ CreateTableOk
  \/ CreateTableFailed
  \/ PrepareDone
  \/ \E rec \in RawRecords : OnData(rec)
  \/ OnEnd
  \/ OnParseError
  \/ OnFileError
  \/ BeginDone
  \/ InsertRowOk
  \/ InsertRowError
  \/ CommitDone
  \/ IndexOk
  \/ IndexError
  \/ GetOk
  \/ GetError
  \/ CloseDone

Spec == Init /\ [][Next]_vars

(* --------------------------- the import run again ---------------------- *)
\* The process ends, at whatever point (it returned, it crashed or it was
\* killed), and main is started again on the same file and the same
\* database file: the table and the rows committed to it are kept, an open
\* transaction is lost, and everything else is as constructed.
Restart ==
  /\ runs = 1
  /\ runs' = 2
  /\ previous' = [rows |-> readRows, failed |-> rowWarnings # <<>>]
  /\ working' = committed
  /\ pc' = "start"
  /\ stream' = "none"
  /\ readRows' = <<>> /\ currentChunk' = <<>> /\ batches' = <<>>
  /\ processedRows' = 0 /\ rowWarnings' = <<>> /\ results' = <<>>
  /\ db' = IdleDb
  /\ inTxn' = FALSE /\ commits' = 0
  /\ indexes' = 0 /\ indexCalls' = 0 /\ completed' = 0 /\ indexWarnings' = 0
  /\ importResult' = "pending" /\ reported' = -1
  /\ stats' = NoStats /\ statsPrinted' = FALSE
  /\ failureLogged' = FALSE /\ csvErrorLogged' = FALSE
  /\ closeCalls' = 0 /\ handle' = "open" /\ closeError' = FALSE
  /\ UNCHANGED <<chunkSize, table, committed, unitVars>>

NextRerun == Next \/ Restart
SpecRerun == Init /\ [][NextRerun]_vars

TypeOK ==
  /\ pc \in {"start", "createTable", "importing", "stats", "done", "crashed"}
  /\ stream \in {"none", "flowing", "ended", "errored"}
  /\ Len(readRows) <= MaxRecords
  /\ inTxn \in BOOLEAN
  /\ committed \subseteq working
  /\ Pending(db) <= 2

(* ------------------ the row transformer called on its own ------------- *)
\* Longest column name explored.
MaxNameLen == 3
\* Largest number of columns of a raw record explored.
MaxColumns == 2

\* The characters of the column names explored: a capital, a small letter,
\* a digit, whitespace, a hyphen, an underscore and a character that is
\* neither.
NameChars == {"A", "b", "1", " ", "-", "_", "!"}
ColumnNames == UNION {[1..n -> NameChars] : n \in 0..MaxNameLen}

\* Column names as a csv header has them, and the texts of their cells.
C_PeakCCU == <<"P", "e", "a", "k", " ", "C", "C", "U">>
C_Positive == <<"P", "o", "s", "i", "t", "i", "v", "e">>
C_Achievements == <<"A", "c", "h", "i", "e", "v", "e", "m", "e", "n", "t", "s">>
Headers == {C_AppID, C_Name, C_Price, C_PeakCCU, C_Positive, C_Achievements}
CellTexts ==
  {<<>>, <<"0">>, <<"1", "5">>, <<"a", "b", "c">>, <<"9", ".", "5">>, <<"7", "x">>}

\* The raw records explored: up to MaxColumns cells under distinct headers.
RawRows ==
  {r \in UNION {[1..n -> Headers \X {StrV(x) : x \in CellTexts}] : n \in 0..MaxColumns} :
     \A i, j \in DOMAIN r : i # j => r[i][1] # r[j][1]}

\* A call of cleanColumnName is about to be made on a column name.
InitName ==
  /\ Constructed
  /\ runs = 1
  /\ previous = NoPrevious
  /\ columnName \in ColumnNames
  /\ cleanKeys = <<>>
  /\ row = <<>>
  /\ typedRow = NotCleaned

\* cleanColumnName(columnName) returns.
NormalizeName ==
  /\ cleanKeys = <<>>
  /\ cleanKeys' = <<cleanColumnName(columnName)>>
  /\ UNCHANGED <<pc, chunkSize, runs, previous, columnName, row, typedRow,
                 sourceVars, tableVars, rowVars, indexVars, mainVars, db, endVars>>

\* cleanColumnName called on what it returned.
NormalizeAgain ==
  /\ Len(cleanKeys) = 1
  /\ cleanKeys' = Append(cleanKeys, cleanColumnName(cleanKeys[1]))
  /\ UNCHANGED <<pc, chunkSize, runs, previous, columnName, row, typedRow,
                 sourceVars, tableVars, rowVars, indexVars, mainVars, db, endVars>>

NextName == NormalizeName \/ NormalizeAgain
SpecName == InitName /\ [][NextName]_vars

\* A call of cleanRowData is about to be made on a raw record.
InitRow ==
  /\ Constructed
  /\ runs = 1
  /\ previous = NoPrevious
  /\ columnName = <<>>
  /\ cleanKeys = <<>>
  /\ row \in RawRows
  /\ typedRow = NotCleaned

\* cleanRowData(row) returns.
CleanRow ==
  /\ ~typedRow.done
  /\ typedRow' = [done |-> TRUE, v |-> cleanRowData(row)]
  /\ UNCHANGED <<pc, chunkSize, runs, previous, columnName, cleanKeys, row,
                 sourceVars, tableVars, rowVars, indexVars, mainVars, db, endVars>>

NextRow == CleanRow
SpecRow == InitRow /\ [][NextRow]_vars

(* --------------------- getStats on a table already loaded -------------- *)
\* Largest catalog id of the tables explored.
MaxStored == 3

\* The tables explored: at most one row per catalog id 1..MaxStored, with
\* price 0, 19.99, 49.99 or NULL.
StoredPrices == {NumV(0), NumV(1999), NumV(4999), NullV}
Stores ==
  {S \in SUBSET [app_id : 1..MaxStored, name : {StrV(<<"A">>)}, price : StoredPrices] :
     \A r1, r2 \in S : r1.app_id = r2.app_id => r1 = r2}

\* main has awaited importCSV and calls getStats (line 386): the database
\* file held a table loaded by earlier imports, this run's file had no
\* record, the six index statements have run and the first query of
\* getStats is executing.
InitStats ==
  /\ pc = "stats"
  /\ stream = "ended"
  /\ chunkSize \in 1..MaxChunk
  /\ readRows = <<>> /\ currentChunk = <<>> /\ batches = <<>>
  /\ processedRows = 0 /\ rowWarnings = <<>> /\ results = <<>>
  /\ db = [IdleDb EXCEPT !.cur = DbOp("GET", 1), !.st = "finalized"]
  /\ table = TRUE
  /\ committed \in Stores
  /\ working = committed
  /\ inTxn = FALSE /\ commits = 0
  /\ indexes = NumIndexes /\ indexCalls = 1 /\ completed = NumIndexes
  /\ indexWarnings = 0
  /\ importResult = "resolved" /\ reported = 0
  /\ stats = NoStats /\ statsPrinted = FALSE
  /\ failureLogged = FALSE /\ csvErrorLogged = FALSE
  /\ closeCalls = 0 /\ handle = "open" /\ closeError = FALSE
  /\ runs = 1 /\ previous = NoPrevious
  /\ NoUnitCall

NextStats == GetOk \/ GetError \/ CloseDone
SpecStats == InitStats /\ [][NextStats]_vars

(* ------------------------ vocabulary of the claims --------------------- *)
RECURSIVE Flatten(_)
\* The batches concatenated in the order they were issued.
Flatten(bs) == IF bs = <<>> THEN <<>> ELSE Head(bs) \o Flatten(Tail(bs))

\* Number of rows in the batches before batch b.
BaseOf(b) == Len(Flatten(SubSeq(batches, 1, b - 1)))
\* The read-order numbers of the rows of batch b.
RowsOfBatch(b) == (BaseOf(b) + 1)..(BaseOf(b) + Len(batches[b]))
\* The executed inserts of record n.
ResultsOf(n) == {i \in DOMAIN results : results[i].n = n}
\* The table row that record n makes when stored under rowid.
RowOf(n, rowid) ==
  [app_id |-> rowid,
   name |-> SqlValue(Values(readRows[n])[2]),
   price |-> SqlValue(Values(readRows[n])[3])]
Count(res) == Cardinality({i \in DOMAIN results : results[i].res = res})
\* The process ended by main returning and the handle running dry.
ExitedNormally == Exited /\ pc = "done"

(* -------------------------------- C1 ----------------------------------- *)
\* C1: a failed row insert is caught and logged as a warning, the
\* remaining rows of the batch are still attempted and the batch's
\* transaction still commits: once a batch's COMMIT has executed, every
\* row of the batch was attempted exactly once, every failed row has its
\* warning, and every row that inserted is durably in the table.  A run
\* that ends normally has committed every batch it issued, and a run whose
\* source reached its end resolves importCSV whatever rows failed.
C1_RowErrorsContained ==
  /\ \A b \in 1..commits : \A n \in RowsOfBatch(b) :
       /\ Cardinality(ResultsOf(n)) = 1
       /\ \A i \in ResultsOf(n) :
            /\ results[i].res = "error" => \E w \in DOMAIN rowWarnings : rowWarnings[w] = n
            /\ results[i].res = "inserted" => RowOf(n, results[i].rowid) \in committed
  /\ ExitedNormally => commits = Len(batches)
  /\ (ExitedNormally /\ stream = "ended") => importResult = "resolved"

\* A committed batch of two rows whose first insert failed and whose
\* second inserted, in a run that resolved.
C1_Witness ==
  /\ importResult = "resolved"
  /\ \E b \in 1..commits :
       /\ Len(batches[b]) = 2
       /\ \E i, j \in DOMAIN results :
            /\ results[i].n = BaseOf(b) + 1 /\ results[i].res = "error"
            /\ results[j].n = BaseOf(b) + 2 /\ results[j].res = "inserted"

(* -------------------------------- C2 ----------------------------------- *)
\* The catalog id of record n as the typed row carries it.
TypedId(n) == SqlValue(Values(readRows[n])[1])

C3_Batching ==
  /\ \A b \in DOMAIN batches :
       /\ Len(batches[b]) >= 1 /\ Len(batches[b]) <= chunkSize
       /\ (b < Len(batches) \/ stream # "ended") => Len(batches[b]) = chunkSize
  /\ Len(currentChunk) < chunkSize
  /\ stream # "ended" => Flatten(batches) \o currentChunk = readRows
  /\ stream = "ended" => Flatten(batches) = readRows
  /\ \A i \in DOMAIN results :
       /\ results[i].n = i
       /\ i <= Len(Flatten(batches))
  /\ ExitedNormally => Len(results) = Len(Flatten(batches))

\* The input ended with the buffer holding fewer rows than chunkSize: the
\* remainder was flushed as a last, partial batch and executed.
C3_Witness ==
  /\ stream = "ended"
  /\ batches # <<>>
  /\ Len(batches[Len(batches)]) < chunkSize
  /\ Len(results) = Len(readRows)

(* -------------------------------- C4 ----------------------------------- *)
\* Whether a CREATE INDEX has executed.
IndexExecuted == indexes + indexWarnings > 0

\* No index statement executes before every record was read and the
\* transaction of every batch, the last partial one included, committed.
IndexesAfterAllCommits ==
  IndexExecuted =>
    /\ stream = "ended"
    /\ commits = Len(batches)
    /\ Flatten(batches) = readRows
    /\ ~inTxn
    /\ committed = working

\* C4 as stated: every run (here: every run that ends by main returning)
\* has called createIndexes exactly once, and no index is created before
\* every batch has committed.
C4_Original ==
  /\ ExitedNormally => indexCalls = 1
  /\ IndexesAfterAllCommits

\* C4, amended: createIndexes is called at most once in a run, and exactly
\* once when the source has reached its end (never in a run that failed
\* before that); no index is created before every batch has committed.
C4_IndexesOnceAfterCommits ==
  /\ indexCalls <= 1
  /\ (indexCalls = 1) <=> (stream = "ended")
  /\ IndexesAfterAllCommits

\* All six index statements have executed after two batches committed.
C4_Witness ==
  /\ indexes + indexWarnings = NumIndexes
  /\ commits = 2
  /\ indexCalls = 1

(* -------------------------------- C5 ----------------------------------- *)
\* C5: in every run of main, close is called as the final step, after a
\* success and after every failure, a missing or unreadable input file
\* included: a process that has ended has called close.
C5_Original == Exited => closeCalls = 1

(* -------------------------------- C6 ----------------------------------- *)
\* C6: on any read failure of the source the promise of importCSV is
\* rejected with the failure.
C6_Original == stream = "errored" => importResult = "rejected"

(* -------------------------------- C7 ----------------------------------- *)
\* The import failed unrecoverably, or getStats failed.
RunFailed == importResult # "resolved" \/ ~statsPrinted

\* C7: a process whose import failed has logged the failure and ends with
\* a non-zero exit code; it ends with exit code 0 only after importCSV and
\* getStats both succeeded and the statistics were printed.
C7_Original ==
  Exited =>
    /\ RunFailed => ExitCode # 0
    /\ ExitCode = 0 => (importResult = "resolved" /\ statsPrinted)

(* -------------------------------- C8 ----------------------------------- *)
\* The typed catalog ids of a batch are pairwise distinct (two nulls are
\* not distinct).
DistinctIds(batch) ==
  \A i, j \in DOMAIN batch :
    i # j => SqlValue(Values(batch[i])[1]) # SqlValue(Values(batch[j])[1])
\* Every row of the batch has a catalog id and a name.
Storable(batch) ==
  \A i \in DOMAIN batch :
    /\ SqlValue(Values(batch[i])[1]) # NullV
    /\ SqlValue(Values(batch[i])[2]) # NullV
\* getStats has answered its COUNT(*) after a run of exactly one batch.
OneBatchCounted ==
  /\ stats.totalGames # NullV
  /\ Len(batches) = 1

\* C8 as stated: from an empty table, one batch of N typed rows with
\* all-distinct catalog ids (no insert failing) gives a total of N.
C8_Original ==
  (OneBatchCounted /\ DistinctIds(batches[1]) /\ rowWarnings = <<>>)
  => stats.totalGames = NumV(Len(batches[1]))

\* C8, amended: from an empty table, one batch of N typed rows gives a
\* total equal to the number of rows that inserted, which is N less the
\* rows skipped or failed; it is exactly N when every row has a name and a
\* catalog id, the catalog ids are all distinct and no insert fails.
C8_RoundTrip ==
  OneBatchCounted =>
    /\ stats.totalGames = NumV(Count("inserted"))
    /\ Count("inserted") + Count("ignored") + Count("error") = Len(batches[1])
    /\ (DistinctIds(batches[1]) /\ Storable(batches[1]) /\ rowWarnings = <<>>)
         => stats.totalGames = NumV(Len(batches[1]))

\* A batch of two storable rows with distinct catalog ids was counted.
C8_Witness ==
  /\ OneBatchCounted
  /\ Len(batches[1]) = 2
  /\ DistinctIds(batches[1]) /\ Storable(batches[1]) /\ rowWarnings = <<>>
  /\ stats.totalGames = NumV(2)

(* -------------------------------- C9 ----------------------------------- *)
\* Every record read has a name, so that no row is skipped for its name.
AllNamed == \A n \in DOMAIN readRows : SqlValue(Values(readRows[n])[2]) # NullV

\* C9 as stated: the total printed when the import completes is the number
\* of rows actually inserted into the table; a row ignored because its
\* catalog id is already stored is not counted.
C9_Original == (reported # -1 /\ AllNamed) => reported = Count("inserted")

\* C9, amended: the total printed when the import completes is the number
\* of rows whose insert completed without an error, the rows ignored for a
\* catalog id already stored (or for a NULL name) included; only the rows
\* whose insert failed are left out.  Every record read has been executed
\* by then.
C9_ReportedCount ==
  reported # -1 =>
    /\ reported = Count("inserted") + Count("ignored")
    /\ reported = Len(readRows) - Count("error")
    /\ Len(results) = Len(readRows)

\* The printed total counts an ignored duplicate and leaves out a failure.
C9_Witness ==
  /\ reported = 1
  /\ Count("ignored") = 1
  /\ Count("error") = 1

(* -------------------------------- C10 ---------------------------------- *)
\* An index statement is queued or executing.
IndexOutstanding ==
  \/ db.cur.k = "INDEX"
  \/ \E i \in DOMAIN db.queue : db.queue[i].k = "INDEX"

\* C10: whichever index statements fail, each failure is logged as a
\* warning, all six statements are executed, and createIndexes, and with it
\* importCSV, resolves: it has resolved as soon as no index statement is
\* outstanding, and it never rejects.
C10_IndexFailuresContained ==
  /\ completed = indexes + indexWarnings
  /\ importResult = "resolved" =>
       /\ indexCalls = 1
       /\ indexes + indexWarnings = NumIndexes
  /\ (stream = "ended" /\ ~IndexOutstanding) => importResult = "resolved"
  /\ stream = "ended" => importResult # "rejected"

\* importCSV resolved although some index statements failed, and others
\* were created after a failure.
C10_Witness ==
  /\ importResult = "resolved"
  /\ indexWarnings >= 2
  /\ indexes >= 2
(* -------------------------------- C11 ---------------------------------- *)
\* Whether the raw record has a column whose cleaned name is k, and the
\* text of its cell.
HasColumn(r, k) == \E i \in DOMAIN r : TargetKey(cleanColumnName(r[i][1])) = k
CellOf(r, k) ==
  r[CHOOSE i \in DOMAIN r : TargetKey(cleanColumnName(r[i][1])) = k][2]

\* C11: for a raw record with no peak_ccu column at all the typed row has
\* peak_ccu 0, not null and not absent, and likewise for every count-like
\* field missing from the record.
C11_Original ==
  typedRow.done =>
    \A k \in CountKeys :
      ~HasColumn(row, k) => (k \in DOMAIN typedRow.v /\ typedRow.v[k] = NumV(0))

(* -------------------------------- C12 ---------------------------------- *)
\* The cell under key k holds text that does not parse as a number.
Unparseable(r, k) ==
  /\ HasColumn(r, k)
  /\ CellOf(r, k).s # <<>>
  /\ IF k = K_price THEN parseFloat(CellOf(r, k).s) = NaNV
                    ELSE parseInt(CellOf(r, k).s) = NaNV

\* C12: for a numeric field whose text does not parse as a number the
\* typed row holds the default of the field class: null for the catalog
\* id, 0 for a count-like field, 0.0 for price.  The field is read as the
\* store receives it, so that NaN passes for null.
C12_Original ==
  typedRow.done =>
    /\ Unparseable(row, K_app_id) => SqlValue(Field(typedRow.v, K_app_id)) = NullV
    /\ \A k \in CountKeys :
         Unparseable(row, k) => SqlValue(Field(typedRow.v, k)) = NumV(0)
    /\ Unparseable(row, K_price) => SqlValue(Field(typedRow.v, K_price)) = NumV(0)

(* -------------------------------- C13 ---------------------------------- *)
\* C13: cleanColumnName is idempotent: called on what it returned, it
\* returns the same text.
C13_Idempotent == Len(cleanKeys) = 2 => cleanKeys[2] = cleanKeys[1]

\* A column name that cleanColumnName shortened and put an underscore in
\* was normalized twice.
C13_Witness ==
  /\ Len(cleanKeys) = 2
  /\ Len(cleanKeys[1]) < Len(columnName)
  /\ InSeq("_", cleanKeys[1])
  /\ ~InSeq("_", columnName)

(* -------------------------------- C14 ---------------------------------- *)
\* The stored rows with a price above 0, and the sum of their prices.
PositiveRows == {r \in committed : r.price # NullV /\ r.price.n > 0}
PositiveSum == SumPrices(PositiveRows)

\* The statistics that main printed are those of the stored rows: the
\* total counts every row, the average (in hundredths, rounded down), the
\* minimum and the maximum are taken over the rows with price > 0 and are
\* NULL when there is none.
StatsOfStoredRows ==
  statsPrinted =>
    /\ stats.totalGames = NumV(Cardinality(committed))
    /\ IF PositiveRows = {}
       THEN stats.avgPrice = NullV /\ stats.minPrice = NullV /\ stats.maxPrice = NullV
       ELSE /\ stats.avgPrice.t = "number"
            /\ stats.avgPrice.n * Cardinality(PositiveRows) <= PositiveSum
            /\ PositiveSum < (stats.avgPrice.n + 1) * Cardinality(PositiveRows)
            /\ \E r \in PositiveRows : stats.minPrice = r.price
            /\ \E r \in PositiveRows : stats.maxPrice = r.price
            /\ \A r \in PositiveRows :
                 stats.minPrice.n <= r.price.n /\ r.price.n <= stats.maxPrice.n

\* Three stored rows with prices 0, 19.99 and 49.99.
ExampleStore ==
  /\ Cardinality(committed) = 3
  /\ {r.price : r \in committed} = {NumV(0), NumV(1999), NumV(4999)}

\* The example of the claim: total 3, average 34.99, range (19.99, 49.99).
ExampleStats ==
  (statsPrinted /\ ExampleStore) =>
    /\ stats.totalGames = NumV(3)
    /\ stats.avgPrice = NumV(3499)
    /\ stats.minPrice = NumV(1999)
    /\ stats.maxPrice = NumV(4999)

\* C14: after a load getStats returns the total number of stored rows,
\* rows with price 0 included, and the average, minimum and maximum price
\* of the stored rows with price > 0 (prices 0, 19.99, 49.99 give 3, 34.99
\* and (19.99, 49.99)); no step of getStats changes a stored row.
C14_Stats ==
  /\ [](StatsOfStoredRows /\ ExampleStats)
  /\ [][committed' = committed /\ working' = working]_vars

\* The statistics of the example were printed.
C14_Witness ==
  /\ statsPrinted
  /\ ExampleStore
  /\ stats.avgPrice = NumV(3499)

(* -------------------------------- C15 ---------------------------------- *)
RECURSIVE Imported(_, _)
\* What one uninterrupted import of the first n of the typed rows, none of
\* whose inserts fails, stores in an empty table.
Imported(rows, n) ==
  IF n = 0 THEN {}
  ELSE InsertOrIgnore(Imported(rows, n - 1), Values(rows[n]))

\* The run started again has read the file to its end and returned, and no
\* insert of either run failed.
RerunDone ==
  /\ runs = 2
  /\ ~previous.failed
  /\ ExitedNormally
  /\ importResult = "resolved"
  /\ rowWarnings = <<>>

\* C15: after the import is run again on the table that an interrupted or
\* a finished run left, the stored rows are exactly those that one
\* uninterrupted import into an empty table stores, whatever the records'
\* catalog ids.
C15_Original ==
  RerunDone => committed = Imported(readRows, Len(readRows))

\* The same for the inputs all of whose records have a catalog id.
C15_WithIds ==
  (RerunDone /\ \A n \in DOMAIN readRows : TypedId(n) # NullV)
  => committed = Imported(readRows, Len(readRows))

(* -------------------------------- C16 ---------------------------------- *)
\* C16: the achievements field of the typed row is null when the raw value
\* is missing, empty or the text "0", and else is the integer parsed from
\* the raw value.
C16_Original ==
  typedRow.done =>
    LET a == Field(typedRow.v, K_achievements)
    IN IF ~HasColumn(row, K_achievements)
          \/ CellOf(row, K_achievements).s \in {<<>>, <<"0">>}
       THEN a \in {NullV, UndefV}
       ELSE a.t = "number" /\ a = parseInt(CellOf(row, K_achievements).s)

(* -------------------------------- C17 ---------------------------------- *)
\* The step executes the BEGIN, a row insert, the COMMIT of a batch.
BeginStep == db.cur.k = "BEGIN" /\ inTxn' /\ ~inTxn
InsertStep == db.scur.k = "RUN" /\ Len(results') = Len(results) + 1
CommitStep == db.cur.k = "COMMIT" /\ commits' = commits + 1

\* C17: transactions never overlap and commit in read order: the BEGIN of
\* a batch executes only after the COMMIT of the batch issued before it,
\* the batches commit in the order they were issued, and every row insert
\* executes between the BEGIN and the COMMIT of its own batch, so after
\* the COMMIT of the batch before its own and before the COMMIT of its
\* own (which is what the formula asks of an insert).
C17_Original ==
  [][/\ BeginStep => (commits = db.cur.a - 1 /\ ~inTxn)
     /\ CommitStep => db.cur.a = commits + 1
     /\ InsertStep => commits = db.scur.b - 1]_vars

\* Every row insert executes inside an open transaction.
InsertsInTransaction == [][InsertStep => inTxn]_vars

\* The BEGIN and COMMIT statements execute in issue order, one batch after
\* the other.
BeginCommitInOrder ==
  [][/\ BeginStep => (commits = db.cur.a - 1 /\ ~inTxn)
     /\ CommitStep => (db.cur.a = commits + 1 /\ inTxn)]_vars

(* -------------------------------- C18 ---------------------------------- *)
\* A row insert is queued or executing.
InsertOutstanding ==
  \/ db.scur.k = "RUN"
  \/ \E i \in DOMAIN db.sq : db.sq[i].k = "RUN"
\* Nothing is queued or executing on the handle or the statement.
HandleIdle == Pending(db) = 0 /\ db.queue = <<>> /\ db.sq = <<>>

\* C18: a run follows the lifecycle Unopened, SchemaReady, WritingBatch*,
\* IndexesBuilt, Closed: the table exists before the first row insert is
\* issued; while a row insert is outstanding no index statement has
\* started, so none executes after index creation has started; a query of
\* getStats executes only after all six index statements have completed
\* and before close; and once the handle is closed nothing is queued or
\* executing on it.
C18_Lifecycle ==
  /\ (batches # <<>> \/ InsertOutstanding \/ results # <<>>) => table
  /\ InsertOutstanding => (db.cur.k # "INDEX" /\ ~IndexExecuted)
  /\ IndexExecuted => Len(results) = Len(readRows)
  /\ (db.cur.k = "GET" \/ stats # NoStats)
       => (completed = NumIndexes /\ indexes + indexWarnings = NumIndexes)
  /\ db.cur.k = "GET" => (closeCalls = 0 /\ handle = "open")
  /\ handle = "closed" => HandleIdle

\* A run went through the whole lifecycle: two batches written, indexes
\* built, statistics printed, handle closed.
C18_Witness ==
  /\ handle = "closed"
  /\ statsPrinted
  /\ commits = 2
  /\ Count("inserted") = 2
  /\ indexes = NumIndexes

(* -------------------------------- C19 ---------------------------------- *)
\* The executed inserts of the rows of batch b that stored a row.
InsertedOf(b) ==
  {i \in DOMAIN results : results[i].n \in RowsOfBatch(b) /\ results[i].res = "inserted"}
\* Batch b is fully committed: each of its rows was executed and every row
\* it stored is durably in the table.
Whole(b) ==
  /\ \A n \in RowsOfBatch(b) : ResultsOf(n) # {}
  /\ \A i \in InsertedOf(b) : RowOf(results[i].n, results[i].rowid) \in committed
\* Batch b is entirely absent: none of its rows is durably in the table.
Absent(b) ==
  \A i \in InsertedOf(b) : RowOf(results[i].n, results[i].rowid) \notin committed

\* The table holds only whole batches, and those are a prefix of the
\* batches issued.
WholeBatchesOnly ==
  \E k \in 0..Len(batches) :
    /\ \A b \in 1..k : Whole(b)
    /\ \A b \in (k + 1)..Len(batches) : Absent(b)

\* The batches issued and not yet committed are at most the last one.
OneBatchOutstanding == commits >= Len(batches) - 1

\* C19: at every point at which the process may be terminated, the table
\* holds only whole batches, a prefix of the batches in read order, and
\* the rows handed to insertChunk and not yet committed belong to at most
\* one batch, the last one issued.
C19_Original ==
  \E k \in 0..Len(batches) :
    /\ \A b \in 1..k : Whole(b)
    /\ \A b \in (k + 1)..Len(batches) : Absent(b)
    /\ k >= Len(batches) - 1

(* -------------------------------- C20 ---------------------------------- *)
\* The step in which main calls close.
CloseCalled == closeCalls' = closeCalls + 1
\* importCSV created no insert statement, or the statement is finalized.
StatementReleased == db.st \in {"none", "finalized"}

\* C20: whenever close is called, on the success path and on every failure
\* path of importCSV, the insert statement that importCSV prepared has
\* been finalized and no batch transaction is open, and so the close
\* releases the handle without an error.
C20_Original ==
  /\ [][CloseCalled => (StatementReleased /\ ~inTxn)]_vars
  /\ [](~closeError)

\* The same on the paths other than a failure of the csv stream.
C20_StreamNotFailed ==
  /\ [][(CloseCalled /\ stream' # "errored") => (StatementReleased /\ ~inTxn)]_vars
  /\ [](stream # "errored" => ~closeError)

=============================================================================
